---- MODULE Spec2Model ----
(***************************************************************************)
(* London-mulligan practice engine (mtg_keep_or_mull): the Deck / Hand /   *)
(* MulliganSimulator state machine and the session endpoints that drive    *)
(* it and store hand decisions.                                            *)
(***************************************************************************)
EXTENDS Integers, Sequences, FiniteSets, TLC

\* ------------------------------------------------------------------------
\* Bounds of the model and program constants
\* ------------------------------------------------------------------------

\* Opening hand size: the literal 7 of start_game() and mulligan().
HandSize == 7

\* Mulligans explored per engine (the code has no cap).
MaxMulligans == 8

\* Longest cards_to_bottom list handed to keep().
MaxBottom == 7

\* Sessions started through the session endpoint, over a whole run.
MaxSessions == 1

\* Mulligans explored per session.
MaxSessionMulligans == 1

\* Longest cards_to_bottom list of a keep request.
MaxSessionBottom == 2

\* Decisions stored in the datastore.
MaxDecisions == 1

\* Card names. Card equality and hashing are by name (card.py), so a Card is
\* modelled by its name.
CardNames == {"Brainstorm", "Island"}

\* ------------------------------------------------------------------------
\* Sequences of cards
\* ------------------------------------------------------------------------

\* Number of occurrences of card c in the list cards.
Count(cards, c) == Cardinality({i \in 1..Len(cards) : cards[i] = c})

\* The two lists hold the same cards with the same multiplicities.
SameCards(a, b) == \A c \in CardNames : Count(a, c) = Count(b, c)

\* Every card of a occurs in b at least as often as in a.
SubCards(a, b) == \A c \in CardNames : Count(a, c) <= Count(b, c)

\* cards[from..to] (empty when from > to).
Slice(cards, from, to) == [i \in 1..(to - from + 1) |-> cards[from + i - 1]]

Min(a, b) == IF a < b THEN a ELSE b

\* ------------------------------------------------------------------------
\* Deck (deck.py)
\* ------------------------------------------------------------------------

\* Deck.shuffle: random.shuffle leaves any permutation of the cards.
shuffle(cards) ==
    {p \in [1..Len(cards) -> CardNames] : SameCards(p, cards)}

\* draw with a fault: the cards are taken from the bottom of the deck.
draw_from_bottom(cards, count) ==
    LET actual_count == Min(count, Len(cards))
    IN  [drawn |-> Slice(cards, Len(cards) - actual_count + 1, Len(cards)),
         rest  |-> Slice(cards, 1, Len(cards) - actual_count)]

\* Deck.draw: the first min(count, len) cards, which leave the deck.
draw(cards, count) ==
    LET actual_count == Min(count, Len(cards))
    IN  [drawn |-> Slice(cards, 1, actual_count),
         rest  |-> Slice(cards, actual_count + 1, Len(cards))]

\* Deck.return_cards: cards.extend.
return_cards(deck, cards) == deck \o cards

\* put_on_bottom with a fault: the cards go on top of the deck.
put_on_top(deck, cards) == cards \o deck

\* Deck.put_on_bottom: cards.extend, no shuffle.
put_on_bottom(deck, cards) == deck \o cards

\* ------------------------------------------------------------------------
\* Hand (hand.py)
\* ------------------------------------------------------------------------

\* _current_hand is None
NoHand == [is_none |-> TRUE, cards |-> <<>>]

\* Hand(cards)
Hand(cards) == [is_none |-> FALSE, cards |-> cards]

\* Position of the first card equal to card, 0 when there is none.
FirstIndex(cards, card) ==
    IF \E i \in 1..Len(cards) : cards[i] = card
    THEN CHOOSE i \in 1..Len(cards) :
            cards[i] = card /\ \A j \in 1..(i - 1) : cards[j] # card
    ELSE 0

\* remove_card with a fault: a card that is not in the hand is skipped silently.
remove_card_lenient(cards, card) ==
    LET i == FirstIndex(cards, card)
    IN  IF i = 0
        THEN [ok |-> TRUE, cards |-> cards]
        ELSE [ok |-> TRUE,
              cards |-> Slice(cards, 1, i - 1) \o Slice(cards, i + 1, Len(cards))]

\* Hand.remove_card: list.remove drops the first equal card, and raises
\* ValueError (ok = FALSE, list untouched) when there is none.
remove_card(cards, card) ==
    LET i == FirstIndex(cards, card)
    IN  IF i = 0
        THEN [ok |-> FALSE, cards |-> cards]
        ELSE [ok |-> TRUE,
              cards |-> Slice(cards, 1, i - 1) \o Slice(cards, i + 1, Len(cards))]

\* The loop of keep(): remove_card for each listed card in turn, on the hand
\* itself; it stops at the first card that raises, with the earlier removals
\* done.
RECURSIVE RemoveEach(_, _)
RemoveEach(cards, cards_to_bottom) ==
    IF cards_to_bottom = <<>>
    THEN [ok |-> TRUE, cards |-> cards]
    ELSE LET r == remove_card(cards, Head(cards_to_bottom))
         IN  IF r.ok THEN RemoveEach(r.cards, Tail(cards_to_bottom)) ELSE r

\* ------------------------------------------------------------------------
\* MulliganSimulator (mulligan.py)
\* ------------------------------------------------------------------------

\* MulliganSimulator(deck, on_play)
NewSimulator(deck, on_play) ==
    [deck |-> deck, on_play |-> on_play, mulligan_count |-> 0,
     current_hand |-> NoHand]

\* start_game(): no guard; resets the count and draws 7.
start_game(s) ==
    LET d == draw(s.deck, HandSize)
    IN  [sim |-> [s EXCEPT !.mulligan_count = 0,
                           !.deck = d.rest,
                           !.current_hand = Hand(d.drawn)],
         result |-> "ok",
         ret |-> d.drawn]

\* The deck of s after return_cards(hand), before the shuffle.
Returned(s) == return_cards(s.deck, s.current_hand.cards)

\* mulligan with a fault: mulligans are refused once the hand would be empty.
mulligan_capped(s, shuffled) ==
    IF s.current_hand.is_none
    THEN [sim |-> s, result |-> "NoActiveHand", ret |-> <<>>]
    ELSE IF s.mulligan_count >= HandSize
    THEN [sim |-> s, result |-> "MulliganLimit", ret |-> <<>>]
    ELSE LET d == draw(shuffled, HandSize)
         IN  [sim |-> [s EXCEPT !.mulligan_count = s.mulligan_count + 1,
                                !.deck = d.rest,
                                !.current_hand = Hand(d.drawn)],
              result |-> "ok",
              ret |-> d.drawn]

\* mulligan(): shuffled is the order random.shuffle leaves.
mulligan(s, shuffled) ==
    IF s.current_hand.is_none
    THEN [sim |-> s, result |-> "NoActiveHand", ret |-> <<>>]
    ELSE LET d == draw(shuffled, HandSize)
         IN  [sim |-> [s EXCEPT !.mulligan_count = s.mulligan_count + 1,
                                !.deck = d.rest,
                                !.current_hand = Hand(d.drawn)],
              result |-> "ok",
              ret |-> d.drawn]

\* The cards_to_bottom argument: None (omitted) or a list.
NoneArg == [is_none |-> TRUE, cards |-> <<>>]
ListArg(cards) == [is_none |-> FALSE, cards |-> cards]

\* cards_to_bottom after "if cards_to_bottom is None: cards_to_bottom = []".
ArgCards(arg) == IF arg.is_none THEN <<>> ELSE arg.cards

\* BottomCountMismatch with a fault: only too many cards are refused.
BottomCountTooMany(s, cards_to_bottom) ==
    Len(cards_to_bottom) > s.mulligan_count

\* The test of keep(): len(cards_to_bottom) != self._mulligan_count.
BottomCountMismatch(s, cards_to_bottom) ==
    Len(cards_to_bottom) # s.mulligan_count

\* keep(cards_to_bottom)
keep(s, arg) ==
    IF s.current_hand.is_none
    THEN [sim |-> s, result |-> "NoActiveHand", ret |-> <<>>]
    ELSE LET cards_to_bottom == ArgCards(arg)
         IN  IF BottomCountMismatch(s, cards_to_bottom)
             THEN [sim |-> s, result |-> "BottomCountMismatch", ret |-> <<>>]
             ELSE LET r == RemoveEach(s.current_hand.cards, cards_to_bottom)
                  IN  IF ~r.ok
                      THEN [sim |-> [s EXCEPT !.current_hand.cards = r.cards],
                            result |-> "CardNotInHand",
                            ret |-> <<>>]
                      ELSE [sim |-> [s EXCEPT
                                       !.current_hand.cards = r.cards,
                                       !.deck = put_on_bottom(s.deck, cards_to_bottom)],
                            result |-> "ok",
                            ret |-> r.cards]

\* get_mulligan_count()
get_mulligan_count(s) == [sim |-> s, result |-> "ok", ret |-> s.mulligan_count]

\* get_current_hand with a fault: the missing hand is handed out as an empty one.
get_current_hand_unchecked(s) ==
    [sim |-> s, result |-> "ok", ret |-> s.current_hand.cards]

\* get_current_hand()
get_current_hand(s) ==
    IF s.current_hand.is_none
    THEN [sim |-> s, result |-> "NoActiveHand", ret |-> <<>>]
    ELSE [sim |-> s, result |-> "ok", ret |-> s.current_hand.cards]

\* ------------------------------------------------------------------------
\* Inputs
\* ------------------------------------------------------------------------

\* Card lists of length 0..n.
CardLists(n) == UNION {[1..k -> CardNames] : k \in 0..n}

\* The arguments keep() is called with.
KeepArgs == {NoneArg} \cup {ListArg(c) : c \in CardLists(MaxBottom)}

\* The engines under test, as constructed: a deck that covers a hand with a
\* card to spare, a deck of exactly one hand, and a deck smaller than a hand.
InitialSimulators ==
    { NewSimulator(<<"Island", "Island", "Brainstorm", "Island", "Island",
                     "Island", "Island", "Brainstorm">>, TRUE),
      NewSimulator(<<"Island", "Brainstorm", "Island", "Island", "Island",
                     "Island", "Island">>, FALSE),
      NewSimulator(<<"Brainstorm", "Island", "Island">>, TRUE) }

\* ------------------------------------------------------------------------
\* Hand signature (hand.py) and decision records (models.py)
\* ------------------------------------------------------------------------

\* Python's order of the card names (str comparison).
NameRank(name) ==
    CASE name = "Brainstorm" -> 1
      [] name = "Fire"       -> 2
      [] name = "Fire,Ice"   -> 3
      [] name = "Ice"        -> 4
      [] name = "Island"     -> 5

\* sorted(names): insertion of each name into the sorted rest.
RECURSIVE Insert(_, _)
Insert(name, sorted) ==
    IF sorted = <<>> THEN <<name>>
    ELSE IF NameRank(name) <= NameRank(Head(sorted)) THEN <<name>> \o sorted
    ELSE <<Head(sorted)>> \o Insert(name, Tail(sorted))

RECURSIVE Sorted(_)
Sorted(names) ==
    IF names = <<>> THEN <<>> ELSE Insert(Head(names), Sorted(Tail(names)))

\* ",".join(names)
RECURSIVE Join(_)
Join(names) ==
    IF names = <<>> THEN ""
    ELSE IF Len(names) = 1 THEN Head(names)
    ELSE Head(names) \o "," \o Join(Tail(names))

\* Hand.get_signature with a fault: the names are joined as they lie.
get_signature_unsorted(cards) == IF cards = <<>> THEN "" ELSE Join(cards)

\* Hand.get_signature
get_signature(cards) == IF cards = <<>> THEN "" ELSE Join(Sorted(cards))

\* Hand.count_lands: the placeholder, always 0.
count_lands(cards) == 0

\* An optional value that was left out (None).
None == [is_none |-> TRUE, value |-> <<>>]
Some(v) == [is_none |-> FALSE, value |-> v]

\* Largest mulligan_count HandDecisionData accepts: Field(..., ge=0, le=6).
MaxRecordedMulligans == 6

\* The latest reading of the clock; datetime.now() is the wall clock, which
\* can repeat a reading and can step back.
MaxTime == 2
Times == 1..MaxTime

\* HandDecisionData(...) as record_decision builds it: cards_bottomed and
\* reason are not passed and keep their default, None.
HandDecisionData(s, decision, deck_id, timestamp) ==
    [hand_signature |-> get_signature(s.current_hand.cards),
     hand_display   |-> s.current_hand.cards,
     mulligan_count |-> s.mulligan_count,
     decision       |-> decision,
     lands_in_hand  |-> count_lands(s.current_hand.cards),
     on_play        |-> s.on_play,
     timestamp      |-> timestamp,
     deck_id        |-> deck_id,
     cards_bottomed |-> None,
     reason         |-> None]

\* ------------------------------------------------------------------------
\* State
\* ------------------------------------------------------------------------

VARIABLES
    sim,            \* the MulliganSimulator under test
    last,           \* the latest call on sim and how it ended
    kept,           \* a keep() has succeeded since the latest start_game()
    decks,          \* MockDataStore._decks: deck_id -> main_deck
    decisions,      \* MockDataStore._decisions
    sessions,       \* dependencies._sessions: session_id -> MulliganSimulator
    session_decks,  \* dependencies._session_decks: session_id -> deck_id
    issued,         \* session ids handed out so far by create_session_id
    response,       \* the latest request and its HTTP status
    answer,         \* the latest statistics query and what it returned
    workers         \* the requests the server's worker threads are handling

engineVars == <<sim, last, kept>>
apiVars == <<decks, decisions, sessions, session_decks, issued, response>>
vars == <<sim, last, kept, decks, decisions, sessions, session_decks, issued,
          response, answer, workers>>

Call(op, result) == [op |-> op, result |-> result]

\* The decks saved in the datastore before the sessions start.
StoredDecks ==
    [deck_id \in {"mono_u"} |->
        <<"Island", "Island", "Island", "Brainstorm", "Island", "Island",
          "Island", "Island">>]

\* The deck ids requests name: the stored one and one that is not stored.
DeckIds == {"mono_u", "missing"}

\* The session ids requests name: those handed out and one that never is.
SessionIds == 1..(MaxSessions + 1)

\* The reasons requests carry.
Reasons == {None, Some("Too many lands")}

NoRequest == [op |-> "none", status |-> 0, session_id |-> 0]

\* The two worker threads of the server that handle requests at the same
\* time: the handlers are plain functions, which the server runs in threads.
Workers == {1, 2}

\* A worker between two requests: served counts the requests it has
\* answered, mulligans those of them that performed a mulligan.
IdleWorker ==
    [op |-> "none", pc |-> "idle", session_id |-> 0, cards |-> <<>>,
     todo |-> <<>>, status |-> 0, served |-> 0, mulligans |-> 0]

\* No statistics query has been made yet.
NoQuery == [op |-> "none", arg |-> "", ret |-> None]

ApiIdle ==
    /\ decks = StoredDecks
    /\ decisions = <<>>
    /\ sessions = <<>>
    /\ session_decks = <<>>
    /\ issued = 0
    /\ response = NoRequest
    /\ answer = NoQuery
    /\ workers = [w \in Workers |-> IdleWorker]

Init ==
    /\ sim \in InitialSimulators
    /\ last = Call("new", "ok")
    /\ kept = FALSE
    /\ ApiIdle

\* ------------------------------------------------------------------------
\* Calls on one engine
\* ------------------------------------------------------------------------

StartGame ==
    LET r == start_game(sim)
    IN  /\ sim' = r.sim
        /\ last' = Call("start_game", r.result)
        /\ kept' = FALSE
        /\ UNCHANGED <<apiVars, answer, workers>>

Mulligan ==
    /\ sim.mulligan_count < MaxMulligans
    /\ \E shuffled \in shuffle(Returned(sim)) :
          LET r == mulligan(sim, shuffled)
          IN  /\ sim' = r.sim
              /\ last' = Call("mulligan", r.result)
              /\ UNCHANGED kept
    /\ UNCHANGED <<apiVars, answer, workers>>

Keep ==
    /\ \E arg \in KeepArgs :
          LET r == keep(sim, arg)
          IN  /\ sim' = r.sim
              /\ last' = Call("keep", r.result)
              /\ kept' = (kept \/ r.result = "ok")
    /\ UNCHANGED <<apiVars, answer, workers>>

GetMulliganCount ==
    LET r == get_mulligan_count(sim)
    IN  /\ sim' = r.sim
        /\ last' = Call("get_mulligan_count", r.result)
        /\ UNCHANGED kept
        /\ UNCHANGED <<apiVars, answer, workers>>

GetCurrentHand ==
    LET r == get_current_hand(sim)
    IN  /\ sim' = r.sim
        /\ last' = Call("get_current_hand", r.result)
        /\ UNCHANGED kept
        /\ UNCHANGED <<apiVars, answer, workers>>

Next ==
    \/ StartGame
    \/ Mulligan
    \/ Keep
    \/ GetMulliganCount
    \/ GetCurrentHand

Spec == Init /\ [][Next]_vars

\* ------------------------------------------------------------------------
\* Session endpoints (api/routers/sessions.py)
\* ------------------------------------------------------------------------

Request(op, session_id, status) ==
    [op |-> op, status |-> status, session_id |-> session_id]

\* sessions.get(session_id) finds a simulator.
Found(session_id) == session_id \in DOMAIN sessions

\* d[k] = v with a fault: every key comes to hold the one new object.
PutShared(d, k, v) == [x \in DOMAIN d \cup {k} |-> v]

\* d[k] = v on a dict.
Put(d, k, v) == [x \in DOMAIN d \cup {k} |-> IF x = k THEN v ELSE d[x]]

\* del d[k] with a fault: the key stays.
DelNothing(d, k) == d

\* del d[k]
Del(d, k) == [x \in DOMAIN d \ {k} |-> d[x]]

\* POST /sessions: 404 for an unknown deck; else a Deck of fresh Cards is
\* shuffled, start_game() draws the opening hand and the simulator is stored
\* under a new session id.
StartSessionUpTo(limit) ==
    /\ UNCHANGED <<engineVars, workers, answer>>
    /\ \E deck_id \in DeckIds, on_play \in BOOLEAN :
           IF deck_id \notin DOMAIN decks
           THEN /\ response' = Request("start_session", 0, 404)
                /\ UNCHANGED <<decks, decisions, sessions, session_decks, issued>>
           ELSE /\ issued < limit
                /\ \E shuffled \in shuffle(decks[deck_id]) :
                      LET simulator == start_game(NewSimulator(shuffled, on_play)).sim
                          session_id == issued + 1
                      IN  /\ sessions' = Put(sessions, session_id, simulator)
                          /\ session_decks' = Put(session_decks, session_id, deck_id)
                          /\ issued' = session_id
                          /\ response' = Request("start_session", session_id, 201)
                /\ UNCHANGED <<decks, decisions>>

\* POST /sessions, while fewer than MaxSessions sessions were started.
StartSession == StartSessionUpTo(MaxSessions)

\* GET /sessions/{session_id}
GetSession ==
    /\ UNCHANGED <<engineVars, workers, answer>>
    /\ \E session_id \in SessionIds :
           /\ response' =
                 IF ~Found(session_id)
                 THEN Request("get_session", session_id, 404)
                 ELSE IF get_current_hand(sessions[session_id]).result # "ok"
                 THEN Request("get_session", session_id, 500)
                 ELSE Request("get_session", session_id, 200)
           /\ UNCHANGED <<decks, decisions, sessions, session_decks, issued>>

\* POST /sessions/{session_id}/mulligan: simulator.mulligan(), nothing else.
MulliganHand ==
    /\ UNCHANGED <<engineVars, workers, answer>>
    /\ \E session_id \in SessionIds :
           IF ~Found(session_id)
           THEN /\ response' = Request("mulligan_hand", session_id, 404)
                /\ UNCHANGED <<decks, decisions, sessions, session_decks, issued>>
           ELSE /\ sessions[session_id].mulligan_count < MaxSessionMulligans
                /\ \E shuffled \in shuffle(Returned(sessions[session_id])) :
                      LET r == mulligan(sessions[session_id], shuffled)
                      IN  /\ sessions' = [sessions EXCEPT ![session_id] = r.sim]
                          /\ response' =
                               Request("mulligan_hand", session_id,
                                       IF r.result = "ok" THEN 200 ELSE 500)
                /\ UNCHANGED <<decks, decisions, session_decks, issued>>

\* keep_hand with a fault: the names are looked up in the hand's own list,
\* not in a copy, so the cards found before a missing name have left the hand.
keep_hand_on_the_hand(s, names) ==
    IF get_current_hand(s).result # "ok"
    THEN [sim |-> s, status |-> 400]
    ELSE IF ~RemoveEach(s.current_hand.cards, names).ok
    THEN [sim |-> [s EXCEPT !.current_hand.cards =
                                RemoveEach(s.current_hand.cards, names).cards],
          status |-> 400]
    ELSE LET r == keep(s, ListArg(names))
         IN  [sim |-> r.sim, status |-> IF r.result = "ok" THEN 200 ELSE 400]

\* The body of keep_hand's try block for the simulator s: each name is looked
\* up in a copy of the hand (400 when it is not there, before the simulator
\* is touched), then simulator.keep(cards_to_bottom), whose ValueError is a
\* 400 as well.
keep_hand(s, names) ==
    IF get_current_hand(s).result # "ok"
    THEN [sim |-> s, status |-> 400]
    ELSE IF ~RemoveEach(s.current_hand.cards, names).ok
    THEN [sim |-> s, status |-> 400]
    ELSE LET r == keep(s, ListArg(names))
         IN  [sim |-> r.sim, status |-> IF r.result = "ok" THEN 200 ELSE 400]

\* POST /sessions/{session_id}/keep
KeepHand ==
    /\ UNCHANGED <<engineVars, workers, answer>>
    /\ \E session_id \in SessionIds, names \in CardLists(MaxSessionBottom),
          reason \in Reasons :
           IF ~Found(session_id)
           THEN /\ response' = Request("keep_hand", session_id, 404)
                /\ UNCHANGED <<decks, decisions, sessions, session_decks, issued>>
           ELSE LET r == keep_hand(sessions[session_id], names)
                IN  /\ sessions' = [sessions EXCEPT ![session_id] = r.sim]
                    /\ response' = Request("keep_hand", session_id, r.status)
                    /\ UNCHANGED <<decks, decisions, session_decks, issued>>

\* The body of record_decision for the simulator s of a session: the record
\* is built from the current hand, without the request's reason; a
\* mulligan_count HandDecisionData refuses raises out of the handler (500)
\* with nothing to save.
record_decision(s, deck_id, decision, reason, now) ==
    IF \/ get_current_hand(s).result # "ok"
       \/ s.mulligan_count > MaxRecordedMulligans
    THEN [status |-> 500, saved |-> <<>>]
    ELSE [status |-> 201,
          saved |-> <<HandDecisionData(s, decision, deck_id, now)>>]

\* POST /sessions/{session_id}/decision: what record_decision built is saved.
RecordDecision ==
    /\ UNCHANGED <<engineVars, workers, answer>>
    /\ \E session_id \in SessionIds, decision \in {"keep", "mull"},
          reason \in Reasons, now \in Times :
           IF ~Found(session_id)
           THEN /\ response' = Request("record_decision", session_id, 404)
                /\ UNCHANGED <<decks, decisions, sessions, session_decks, issued>>
           ELSE LET r == record_decision(sessions[session_id],
                                         session_decks[session_id],
                                         decision, reason, now)
                IN  /\ r.status = 201 => Len(decisions) < MaxDecisions
                    /\ decisions' = decisions \o r.saved
                    /\ response' =
                          Request("record_decision", session_id, r.status)
                    /\ UNCHANGED <<decks, sessions, session_decks, issued>>

\* DELETE /sessions/{session_id}
EndSession ==
    /\ UNCHANGED <<engineVars, workers, answer>>
    /\ \E session_id \in SessionIds :
           IF ~Found(session_id)
           THEN /\ response' = Request("end_session", session_id, 404)
                /\ UNCHANGED <<decks, decisions, sessions, session_decks, issued>>
           ELSE /\ sessions' = Del(sessions, session_id)
                /\ session_decks' = Del(session_decks, session_id)
                /\ response' = Request("end_session", session_id, 204)
                /\ UNCHANGED <<decks, decisions, issued>>

NextApi ==
    \/ StartSession
    \/ GetSession
    \/ MulliganHand
    \/ KeepHand
    \/ RecordDecision
    \/ EndSession

\* The engine of Spec plays no part in the sessions.
InitApi ==
    /\ sim = NewSimulator(<<>>, TRUE)
    /\ last = Call("new", "ok")
    /\ kept = FALSE
    /\ ApiIdle

SpecApi == InitApi /\ [][NextApi]_vars

\* The small deck saved in the datastore before two sessions start from it.
PairDecks == [deck_id \in {"mono_u"} |-> <<"Brainstorm", "Island">>]

\* POST /sessions, for one session more than MaxSessions.
StartPairedSession == StartSessionUpTo(MaxSessions + 1)

InitPair ==
    /\ sim = NewSimulator(<<>>, TRUE)
    /\ last = Call("new", "ok")
    /\ kept = FALSE
    /\ decks = PairDecks
    /\ decisions = <<>>
    /\ sessions = <<>>
    /\ session_decks = <<>>
    /\ issued = 0
    /\ response = NoRequest
    /\ answer = NoQuery
    /\ workers = [w \in Workers |-> IdleWorker]

NextPair ==
    \/ StartPairedSession
    \/ GetSession
    \/ MulliganHand
    \/ KeepHand
    \/ RecordDecision
    \/ EndSession

SpecPair == InitPair /\ [][NextPair]_vars

\* ------------------------------------------------------------------------
\* Decision statistics (datastore.py, models.py, api/routers/statistics.py)
\* ------------------------------------------------------------------------

\* Most decisions saved for the deck statistics and for the hand statistics,
\* and the deepest mulligan recorded.
MaxDeckRecords == 4
MaxHandRecords == 3
MaxStatDepth == 2

\* d.get(k, default) on a dict.
Get(d, k, default) == IF k \in DOMAIN d THEN d[k] ELSE default

RECURSIVE GCD(_, _)
GCD(a, b) == IF b = 0 THEN a ELSE GCD(b, a % b)

\* The number n / d, in lowest terms (d > 0).
Fraction(n, d) ==
    LET g == GCD(n, d) IN [num |-> n \div g, den |-> d \div g]

\* The integer nearest to n / d, a tie going to the even one: round().
RoundHalfEven(n, d) ==
    LET q == n \div d
        r == n % d
    IN  IF 2 * r < d THEN q
        ELSE IF 2 * r > d THEN q + 1
        ELSE IF q % 2 = 0 THEN q ELSE q + 1

\* round(n / d, 2), counted in hundredths.
round2(n, d) == RoundHalfEven(100 * n, d)

\* HandStats.total_decisions
total_decisions(stats) == stats.times_kept + stats.times_mulled

\* HandStats.calculate_keep_percentage: (times_kept / total) * 100.0, or 0.0
\* without decisions; the value is kept as the exact fraction.
calculate_keep_percentage(stats) ==
    [stats EXCEPT !.keep_percentage =
        IF total_decisions(stats) > 0
        THEN Fraction(100 * stats.times_kept, total_decisions(stats))
        ELSE Fraction(0, 1)]

\* HandStats(hand_signature=..., times_kept=..., times_mulled=...)
HandStats(hand_signature, times_kept, times_mulled) ==
    [hand_signature  |-> hand_signature,
     times_kept      |-> times_kept,
     times_mulled    |-> times_mulled,
     keep_percentage |-> Fraction(0, 1)]

\* MockDataStore.save_hand_decision
save_hand_decision(records, decision) == Append(records, decision)

\* MockDataStore.get_decisions_for_deck
get_decisions_for_deck(records, deck_id) ==
    SelectSeq(records, LAMBDA d : d.deck_id = deck_id)

\* get_hand_statistics with a fault: every matching record counts as mulled.
get_hand_statistics_overcounting(records, hand_signature) ==
    LET matching_decisions ==
            SelectSeq(records, LAMBDA d : d.hand_signature = hand_signature)
    IN  IF matching_decisions = <<>>
        THEN [records |-> records, ret |-> None]
        ELSE [records |-> records,
              ret |-> Some(calculate_keep_percentage(
                          HandStats(hand_signature,
                                    Len(SelectSeq(matching_decisions,
                                            LAMBDA d : d.decision = "keep")),
                                    Len(matching_decisions))))]

\* get_hand_statistics with a fault: the matching records leave the store.
get_hand_statistics_consuming(records, hand_signature) ==
    LET matching_decisions ==
            SelectSeq(records, LAMBDA d : d.hand_signature = hand_signature)
    IN  IF matching_decisions = <<>>
        THEN [records |-> records, ret |-> None]
        ELSE [records |-> SelectSeq(records,
                                LAMBDA d : d.hand_signature # hand_signature),
              ret |-> Some(calculate_keep_percentage(
                          HandStats(hand_signature,
                                    Len(SelectSeq(matching_decisions,
                                            LAMBDA d : d.decision = "keep")),
                                    Len(SelectSeq(matching_decisions,
                                            LAMBDA d : d.decision = "mull")))))]

\* MockDataStore.get_hand_statistics: the store after the call and what the
\* call returns.
get_hand_statistics(records, hand_signature) ==
    LET matching_decisions ==
            SelectSeq(records, LAMBDA d : d.hand_signature = hand_signature)
    IN  IF matching_decisions = <<>>
        THEN [records |-> records, ret |-> None]
        ELSE [records |-> records,
              ret |-> Some(calculate_keep_percentage(
                          HandStats(hand_signature,
                                    Len(SelectSeq(matching_decisions,
                                            LAMBDA d : d.decision = "keep")),
                                    Len(SelectSeq(matching_decisions,
                                            LAMBDA d : d.decision = "mull")))))]

\* set(d.hand_signature for d in self._decisions)
Signatures(records) == {records[i].hand_signature : i \in 1..Len(records)}

\* The orders in which iterating a set can give its elements.
Orders(S) ==
    {o \in [1..Cardinality(S) -> S] : \A x \in S : \E i \in DOMAIN o : o[i] = x}

\* The loop of get_all_hand_statistics over the signatures in their order.
RECURSIVE StatsOfEach(_, _)
StatsOfEach(records, signatures) ==
    IF signatures = <<>> THEN <<>>
    ELSE LET stats == get_hand_statistics(records, Head(signatures)).ret
         IN  (IF stats.is_none THEN <<>> ELSE <<stats.value>>)
                 \o StatsOfEach(records, Tail(signatures))

\* get_all_hand_statistics with a fault: one entry per record, not per
\* signature.
get_all_hand_statistics_per_record(records, signatures) ==
    [records |-> records,
     ret |-> StatsOfEach(records,
                         [i \in 1..Len(records) |-> records[i].hand_signature])]

\* MockDataStore.get_all_hand_statistics; signatures is the set of the stored
\* signatures in the order its iteration gives them.
get_all_hand_statistics(records, signatures) ==
    [records |-> records, ret |-> StatsOfEach(records, signatures)]

\* The loop of get_deck_statistics that counts the 'keep' decisions by
\* mulligan_count.
RECURSIVE mulligan_distribution(_)
mulligan_distribution(decs) ==
    IF decs = <<>> THEN <<>>
    ELSE LET before == mulligan_distribution(SubSeq(decs, 1, Len(decs) - 1))
             decision == decs[Len(decs)]
             count == decision.mulligan_count
         IN  IF decision.decision = "keep"
             THEN Put(before, count, Get(before, count, 0) + 1)
             ELSE before

\* sum(d.mulligan_count for d in kept_decisions)
RECURSIVE total_mulligans(_)
total_mulligans(kept_decisions) ==
    IF kept_decisions = <<>> THEN 0
    ELSE Head(kept_decisions).mulligan_count
             + total_mulligans(Tail(kept_decisions))

\* round(average_mulligan_count, 2) of get_deck_statistics, in hundredths.
average_mulligan_count(decs) ==
    LET kept_decisions == SelectSeq(decs, LAMBDA d : d.decision = "keep")
    IN  IF kept_decisions # <<>>
        THEN round2(total_mulligans(kept_decisions), Len(kept_decisions))
        ELSE 0

\* The fields DeckStatsResponse declares with Field(...): all required.
DeckStatsFields ==
    {"deck_id", "total_games", "mulligan_distribution",
     "keep_rate_by_mulligan_count", "average_mulligan_count",
     "hands_kept_at_7", "hands_kept_at_6", "hands_kept_at_5"}

\* DeckStatsResponse(**fields): a required field that is not passed is a
\* validation error.
DeckStatsResponse(fields) ==
    IF DeckStatsFields \subseteq DOMAIN fields
    THEN [ok |-> TRUE, body |-> Some(fields)]
    ELSE [ok |-> FALSE, body |-> None]

\* GET /statistics/decks/{deck_id}: 404 for an unknown deck and for a deck
\* without decisions; else the statistics are computed and handed to
\* DeckStatsResponse, whose validation error leaves the handler as a 500.
get_deck_statistics(stored, records, deck_id) ==
    IF deck_id \notin DOMAIN stored
    THEN [records |-> records, status |-> 404, body |-> None]
    ELSE LET decs == get_decisions_for_deck(records, deck_id)
         IN  IF decs = <<>>
             THEN [records |-> records, status |-> 404, body |-> None]
             ELSE LET distribution == mulligan_distribution(decs)
                      made ==
                          DeckStatsResponse(
                              [deck_id |-> deck_id,
                               total_games |-> Len(decs),
                               mulligan_distribution |-> distribution,
                               average_mulligan_count |->
                                   average_mulligan_count(decs),
                               hands_kept_at_7 |-> Get(distribution, 0, 0),
                               hands_kept_at_6 |-> Get(distribution, 1, 0),
                               hands_kept_at_5 |-> Get(distribution, 2, 0)])
                  IN  [records |-> records,
                       status |-> IF made.ok THEN 200 ELSE 500,
                       body |-> made.body]

\* A HandDecisionData as saved for a hand, with the fields the statistics
\* read and the defaults for the others.
StoredDecision(hand_display, mulligan_count, decision, deck_id) ==
    [hand_signature |-> get_signature(hand_display),
     hand_display   |-> hand_display,
     mulligan_count |-> mulligan_count,
     decision       |-> decision,
     lands_in_hand  |-> count_lands(hand_display),
     on_play        |-> TRUE,
     timestamp      |-> 1,
     deck_id        |-> deck_id,
     cards_bottomed |-> None,
     reason         |-> None]

\* The decks decisions are saved for: the stored one and another one.
StatDeckIds == {"mono_u", "gruul"}

\* The decisions saved for the deck statistics: one opening hand, kept or
\* mulliganed, at every depth for the stored deck and at depth 0 for the
\* other one.
DeckRecords ==
    LET hand == <<"Island", "Island", "Brainstorm", "Island", "Island",
                  "Island", "Island">>
    IN  {StoredDecision(hand, mulligan_count, decision, "mono_u") :
            mulligan_count \in 0..MaxStatDepth, decision \in {"keep", "mull"}}
        \cup {StoredDecision(hand, 0, decision, deck_id) :
                 decision \in {"keep", "mull"}, deck_id \in StatDeckIds}

\* The hands decisions are saved for in the hand statistics: the empty hand,
\* one hand in two orders and a hand of other cards.
StatHands ==
    {<<>>,
     <<"Island", "Brainstorm", "Island">>,
     <<"Brainstorm", "Island", "Island">>,
     <<"Island", "Island", "Island">>}

HandRecords ==
    {StoredDecision(hand_display, 0, decision, "mono_u") :
        hand_display \in StatHands, decision \in {"keep", "mull"}}

\* The signatures queries name: those of the hands and one never recorded.
QuerySignatures == {get_signature(h) : h \in StatHands} \cup {"Island"}

Query(op, arg, ret) == [op |-> op, arg |-> arg, ret |-> ret]

\* datastore.save_hand_decision(decision) with a decision of a deck
SaveDeckDecision ==
    /\ Len(decisions) < MaxDeckRecords
    /\ \E decision \in DeckRecords :
           decisions' = save_hand_decision(decisions, decision)
    /\ UNCHANGED <<engineVars, workers, decks, sessions, session_decks, issued,
                   response, answer>>

\* datastore.save_hand_decision(decision) with a decision on a hand
SaveHandDecision ==
    /\ Len(decisions) < MaxHandRecords
    /\ \E decision \in HandRecords :
           decisions' = save_hand_decision(decisions, decision)
    /\ UNCHANGED <<engineVars, workers, decks, sessions, session_decks, issued,
                   response, answer>>

\* GET /statistics/decks/{deck_id}
GetDeckStatistics ==
    /\ \E deck_id \in DeckIds :
           LET r == get_deck_statistics(decks, decisions, deck_id)
           IN  /\ decisions' = r.records
               /\ answer' = Query("get_deck_statistics", deck_id,
                                  [status |-> r.status, body |-> r.body])
    /\ UNCHANGED <<engineVars, workers, decks, sessions, session_decks, issued,
                   response>>

\* datastore.get_hand_statistics(hand_signature)
GetHandStatistics ==
    /\ \E hand_signature \in QuerySignatures :
           LET r == get_hand_statistics(decisions, hand_signature)
           IN  /\ decisions' = r.records
               /\ answer' = Query("get_hand_statistics", hand_signature, r.ret)
    /\ UNCHANGED <<engineVars, workers, decks, sessions, session_decks, issued,
                   response>>

\* datastore.get_all_hand_statistics()
GetAllHandStatistics ==
    /\ \E signatures \in Orders(Signatures(decisions)) :
           LET r == get_all_hand_statistics(decisions, signatures)
           IN  /\ decisions' = r.records
               /\ answer' = Query("get_all_hand_statistics", "", r.ret)
    /\ UNCHANGED <<engineVars, workers, decks, sessions, session_decks, issued,
                   response>>

NextDeckStats ==
    \/ SaveDeckDecision
    \/ GetDeckStatistics

SpecDeckStats == InitApi /\ [][NextDeckStats]_vars

NextHandStats ==
    \/ SaveHandDecision
    \/ GetHandStatistics
    \/ GetAllHandStatistics
    \/ GetDeckStatistics

SpecHandStats == InitApi /\ [][NextHandStats]_vars

\* ------------------------------------------------------------------------
\* Decision history (api/routers/decisions.py)
\* ------------------------------------------------------------------------

\* Most decisions saved for the history, the largest limit and the largest
\* offset a history request carries.
MaxHistoryRecords == 3
MaxLimit == 2
MaxOffset == 2

\* datetime.isoformat() of a reading of the clock.
isoformat(timestamp) ==
    "2025-01-01T00:00:0"
        \o <<"0", "1", "2", "3", "4", "5", "6", "7", "8", "9">>[timestamp + 1]

\* MockDataStore.get_all_decisions: a copy of the list.
get_all_decisions(records) == [i \in 1..Len(records) |-> records[i]]

\* The step of sorted(..., key=lambda d: d.timestamp) that places one more
\* decision: behind every decision that is not later than it.
InsertByTimestamp(sorted_decisions, d) ==
    LET ahead == Len(SelectSeq(sorted_decisions,
                               LAMBDA e : e.timestamp <= d.timestamp))
    IN  SubSeq(sorted_decisions, 1, ahead) \o <<d>>
            \o SubSeq(sorted_decisions, ahead + 1, Len(sorted_decisions))

\* sorted with a fault: the list is left in the order of the store.
sorted_by_timestamp_unsorted(all_decisions) == all_decisions

\* sorted(all_decisions, key=lambda d: d.timestamp): stable, oldest first.
RECURSIVE sorted_by_timestamp(_)
sorted_by_timestamp(all_decisions) ==
    IF all_decisions = <<>> THEN <<>>
    ELSE InsertByTimestamp(
             sorted_by_timestamp(
                 SubSeq(all_decisions, 1, Len(all_decisions) - 1)),
             all_decisions[Len(all_decisions)])

\* DecisionResponse(...) of a stored decision: the same fields, the
\* timestamp in ISO format.
DecisionResponse(d) == [d EXCEPT !.timestamp = isoformat(d.timestamp)]

\* GET /decisions: deck_id is None, or the string of the query; an empty
\* string is as false as None for `if deck_id:`.
get_decision_history(records, deck_id, limit, offset) ==
    LET all_decisions ==
            IF ~deck_id.is_none /\ deck_id.value # ""
            THEN get_decisions_for_deck(records, deck_id.value)
            ELSE get_all_decisions(records)
        sorted_decisions == sorted_by_timestamp(all_decisions)
        paginated_decisions ==
            SubSeq(sorted_decisions, offset + 1,
                   Min(offset + limit, Len(sorted_decisions)))
    IN  [records |-> records,
         decisions |-> [i \in 1..Len(paginated_decisions) |->
                           DecisionResponse(paginated_decisions[i])],
         total |-> Len(sorted_decisions)]

\* The decisions saved for the history: one hand kept at 0 mulligans, at
\* every reading of the clock for the stored deck and at the first one for
\* the other deck.
HistoryRecords ==
    LET hand == <<"Island", "Island", "Brainstorm", "Island", "Island",
                  "Island", "Island">>
    IN  {[StoredDecision(hand, 0, "keep", "mono_u")
              EXCEPT !.timestamp = timestamp] : timestamp \in Times}
        \cup {StoredDecision(hand, 0, "keep", deck_id) :
                 deck_id \in StatDeckIds}

\* The deck filters history requests carry: none, an empty one and a deck.
HistoryFilters == {None, Some(""), Some("mono_u")}

\* datastore.save_hand_decision(decision) with a decision made at some time
SaveTimedDecision ==
    /\ Len(decisions) < MaxHistoryRecords
    /\ \E decision \in HistoryRecords :
           decisions' = save_hand_decision(decisions, decision)
    /\ UNCHANGED <<engineVars, workers, decks, sessions, session_decks, issued,
                   response, answer>>

\* GET /decisions?deck_id=...&limit=...&offset=...
GetDecisionHistory ==
    /\ \E deck_id \in HistoryFilters, limit \in 1..MaxLimit,
          offset \in 0..MaxOffset :
           LET r == get_decision_history(decisions, deck_id, limit, offset)
           IN  /\ decisions' = r.records
               /\ answer' = Query("get_decision_history",
                                  <<deck_id, limit, offset>>,
                                  [decisions |-> r.decisions,
                                   total |-> r.total])
    /\ UNCHANGED <<engineVars, workers, decks, sessions, session_decks, issued,
                   response>>

NextHistory ==
    \/ SaveTimedDecision
    \/ GetDecisionHistory

SpecHistory == InitApi /\ [][NextHistory]_vars

\* ------------------------------------------------------------------------
\* Properties of the engine
\* ------------------------------------------------------------------------

\* a is b with some cards taken out, the others in their order.
RECURSIVE IsSubSeq(_, _)
IsSubSeq(a, b) ==
    IF a = <<>> THEN TRUE
    ELSE IF b = <<>> THEN FALSE
    ELSE IF Head(a) = Head(b) THEN IsSubSeq(Tail(a), Tail(b))
    ELSE IsSubSeq(a, Tail(b))

HasHand == ~sim.current_hand.is_none
HandCards == sim.current_hand.cards

\* C1: a keep() that fails, for whatever reason, leaves the hand, the deck
\* and the mulligan count exactly as they were before the call.
C1_FailedKeepChangesNothing ==
    [][(last'.op = "keep" /\ last'.result # "ok") => sim' = sim]_vars

\* C2 as stated: keep() with a list whose length differs from the mulligan
\* count always fails with the bottom-count error and changes nothing.
C2_WrongCountIsBottomCountError ==
    \A arg \in KeepArgs :
        Len(ArgCards(arg)) # sim.mulligan_count =>
            /\ keep(sim, arg).result = "BottomCountMismatch"
            /\ keep(sim, arg).sim = sim

\* C2 amended: on an engine with a current hand, keep() with a list whose
\* length differs from the mulligan count fails with the bottom-count error
\* and changes nothing (without a current hand it fails with the
\* no-active-hand error instead, also changing nothing).
C2_WrongCountWithHand ==
    \A arg \in KeepArgs :
        Len(ArgCards(arg)) # sim.mulligan_count =>
            /\ keep(sim, arg).result =
                  (IF HasHand THEN "BottomCountMismatch" ELSE "NoActiveHand")
            /\ keep(sim, arg).sim = sim

C2_Witness ==
    /\ last = Call("keep", "BottomCountMismatch")
    /\ sim.mulligan_count >= 1
    /\ Len(HandCards) = HandSize

\* C3: a successful keep() of n cards on a 7-card hand returns the current
\* hand, now the 7 - n cards left after the bottomed ones were taken out (in
\* their display order), appends the bottomed cards in the given order
\* behind the cards the deck held, and leaves the mulligan count at n.
C3_KeepBottomsInOrder ==
    \A arg \in KeepArgs :
        LET r == keep(sim, arg)
            n == sim.mulligan_count
        IN  (r.result = "ok" /\ Len(HandCards) = HandSize) =>
                /\ n \in 0..HandSize
                /\ r.ret = r.sim.current_hand.cards
                /\ Len(r.ret) = HandSize - n
                /\ IsSubSeq(r.ret, HandCards)
                /\ SameCards(r.ret \o ArgCards(arg), HandCards)
                /\ r.sim.deck = sim.deck \o ArgCards(arg)
                /\ r.sim.mulligan_count = n

C3_Witness ==
    /\ last = Call("keep", "ok")
    /\ sim.mulligan_count = HandSize
    /\ HandCards = <<>>
    /\ Len(sim.deck) > HandSize

\* C4: a mulligan() on an engine whose deck and hand hold at least 7 cards
\* leaves a hand of exactly 7 cards, the deck at the size it had before the
\* call, and the cards of deck plus hand the same as before.
C4_MulliganRestoresSizes ==
    [][(last'.op = "mulligan" /\ last'.result = "ok"
            /\ Len(sim.deck) + Len(HandCards) >= HandSize) =>
        /\ Len(sim'.current_hand.cards) = HandSize
        /\ Len(sim'.deck) = Len(sim.deck)
        /\ SameCards(sim'.deck \o sim'.current_hand.cards,
                     sim.deck \o HandCards)]_vars

\* C5: once keep() has succeeded, no later mulligan() or keep() changes the
\* kept hand, the deck or the mulligan count.
C5_KeptIsTerminal ==
    [][(kept /\ last'.op \in {"mulligan", "keep"}) => sim' = sim]_vars

\* C6: with a current hand, keep() succeeds exactly when the list has as
\* many cards as the mulligan count and every name is listed at most as
\* often as the hand holds it; a list of the right length that asks for more
\* is refused as card-not-in-hand.
C6_KeepSucceedsIffSubHand ==
    HasHand =>
        \A arg \in KeepArgs :
            LET fits == /\ Len(ArgCards(arg)) = sim.mulligan_count
                        /\ SubCards(ArgCards(arg), HandCards)
            IN  /\ keep(sim, arg).result = "ok" <=> fits
                /\ (Len(ArgCards(arg)) = sim.mulligan_count /\ ~fits) =>
                       keep(sim, arg).result = "CardNotInHand"

C6_Witness ==
    /\ last = Call("keep", "CardNotInHand")
    /\ sim.mulligan_count >= 2

\* C7: start_game() succeeds in every engine state; it sets the mulligan
\* count to 0, makes the first min(7, deck size) cards of the deck the
\* current hand, in deck order, and leaves the rest of the deck.
C7_StartGameDrawsFromTop ==
    [][last'.op = "start_game" =>
        LET k == Min(HandSize, Len(sim.deck))
        IN  /\ last'.result = "ok"
            /\ sim'.mulligan_count = 0
            /\ ~sim'.current_hand.is_none
            /\ sim'.current_hand.cards = SubSeq(sim.deck, 1, k)
            /\ sim'.deck = SubSeq(sim.deck, k + 1, Len(sim.deck))
            /\ sim'.on_play = sim.on_play]_vars

C7_Witness ==
    /\ last = Call("start_game", "ok")
    /\ Len(HandCards) \in 1..(HandSize - 1)
    /\ sim.deck = <<>>

\* C8: on an engine without a current hand (start_game() never called),
\* mulligan(), keep() and get_current_hand() fail with the no-active-hand
\* error and change nothing.
C8_NoHandRejected ==
    [][(~HasHand /\ last'.op \in {"mulligan", "keep", "get_current_hand"}) =>
        /\ last'.result = "NoActiveHand"
        /\ sim' = sim
        /\ sim.mulligan_count = 0]_vars

C8_Witness ==
    /\ ~HasHand
    /\ last = Call("get_current_hand", "NoActiveHand")

\* C9: the mulligan count starts at 0; every mulligan() on an engine with a
\* hand succeeds, whatever the count, and adds exactly 1; keep(), a failed
\* call and the read accessors leave it; only start_game() sets it to 0.
C9_MulliganCount ==
    /\ sim.mulligan_count = 0
    /\ [][/\ (last'.op = "mulligan" /\ HasHand) =>
                /\ last'.result = "ok"
                /\ sim'.mulligan_count = sim.mulligan_count + 1
          /\ (\/ last'.op \in {"keep", "get_mulligan_count", "get_current_hand"}
              \/ last'.result # "ok") =>
                sim'.mulligan_count = sim.mulligan_count
          /\ last'.op = "start_game" => sim'.mulligan_count = 0
          /\ sim'.mulligan_count < sim.mulligan_count =>
                last'.op = "start_game"]_vars

C9_Witness ==
    /\ last = Call("mulligan", "ok")
    /\ sim.mulligan_count > HandSize

\* ------------------------------------------------------------------------
\* Properties of the session endpoints
\* ------------------------------------------------------------------------

\* C10: a mulligan request that succeeds stores exactly one 'mull' record,
\* with the signature and the mulligan depth of the hand given up, and a
\* keep request that succeeds stores exactly one 'keep' record at the
\* session's depth, without any record-decision request.
C10_RequestsRecordDecisions ==
    [][LET session_id == response'.session_id
           record == decisions'[Len(decisions')]
       IN  /\ (response'.op = "mulligan_hand" /\ response'.status = 200) =>
                /\ Len(decisions') = Len(decisions) + 1
                /\ SubSeq(decisions', 1, Len(decisions)) = decisions
                /\ record.decision = "mull"
                /\ record.deck_id = session_decks[session_id]
                /\ record.mulligan_count = sessions[session_id].mulligan_count
                /\ record.hand_signature =
                      get_signature(sessions[session_id].current_hand.cards)
           /\ (response'.op = "keep_hand" /\ response'.status = 200) =>
                /\ Len(decisions') = Len(decisions) + 1
                /\ SubSeq(decisions', 1, Len(decisions)) = decisions
                /\ record.decision = "keep"
                /\ record.deck_id = session_decks[session_id]
                /\ record.mulligan_count = sessions[session_id].mulligan_count
      ]_vars

\* C11: a keep request that succeeds stores a 'keep' record whose signature
\* and display order are those of the full hand before the bottoming, and
\* whose cards_bottomed is the list of bottomed names when the keep follows
\* at least one mulligan and is absent when it follows none; no 'mull'
\* record carries cards_bottomed.
C11_KeepRecordCarriesFullHand ==
    /\ [][(response'.op = "keep_hand" /\ response'.status = 200) =>
            LET before == sessions[response'.session_id]
                after == sessions'[response'.session_id]
                record == decisions'[Len(decisions')]
                bottomed == SubSeq(after.deck, Len(before.deck) + 1,
                                   Len(after.deck))
            IN  /\ Len(decisions') = Len(decisions) + 1
                /\ record.decision = "keep"
                /\ record.hand_signature =
                      get_signature(before.current_hand.cards)
                /\ record.hand_display = before.current_hand.cards
                /\ record.cards_bottomed =
                      IF before.mulligan_count >= 1 THEN Some(bottomed)
                      ELSE None
         ]_vars
    /\ [](\A i \in 1..Len(decisions) :
             decisions[i].decision = "mull" =>
                 decisions[i].cards_bottomed = None)

\* ------------------------------------------------------------------------
\* Properties of the statistics
\* ------------------------------------------------------------------------

\* The positions of the stored decisions of a deck, and how many of them
\* are the given decision at the given depth.
DecisionsOf(deck_id) ==
    {i \in 1..Len(decisions) : decisions[i].deck_id = deck_id}
NumberAt(deck_id, decision, depth) ==
    Cardinality({i \in DecisionsOf(deck_id) :
                    /\ decisions[i].decision = decision
                    /\ decisions[i].mulligan_count = depth})
NumberOf(deck_id, decision) ==
    Cardinality({i \in DecisionsOf(deck_id) :
                    decisions[i].decision = decision})

\* The deck statistics of a stored deck, as the query answers now.
DeckStatistics(deck_id) == get_deck_statistics(decks, decisions, deck_id)

\* C12: for a stored deck with decisions, the deck-statistics query answers
\* with keep_rate_by_mulligan_count, whose value at every depth with a
\* decision is 100 * keeps / (keeps + mulls) at that depth, and which is
\* absent or 0 at every other depth.
C12_KeepRateByDepth ==
    \A deck_id \in DOMAIN decks :
        DecisionsOf(deck_id) # {} =>
            /\ DeckStatistics(deck_id).status = 200
            /\ "keep_rate_by_mulligan_count"
                   \in DOMAIN DeckStatistics(deck_id).body.value
            /\ LET rate == DeckStatistics(deck_id).body.value
                               .keep_rate_by_mulligan_count
               IN  \A depth \in 0..MaxRecordedMulligans :
                       LET keeps == NumberAt(deck_id, "keep", depth)
                           mulls == NumberAt(deck_id, "mull", depth)
                       IN  IF keeps + mulls > 0
                           THEN /\ depth \in DOMAIN rate
                                /\ rate[depth] =
                                      Fraction(100 * keeps, keeps + mulls)
                           ELSE \/ depth \notin DOMAIN rate
                                \/ rate[depth] = Fraction(0, 1)

\* The depths at which a deck has a 'keep' decision.
KeptDepths(deck_id) ==
    {depth \in 0..MaxRecordedMulligans : NumberAt(deck_id, "keep", depth) > 0}

\* A distribution is the one of the deck's decisions: an entry for exactly
\* the depths with a 'keep', each the number of 'keep' decisions there.
IsDistributionOf(distribution, deck_id) ==
    /\ DOMAIN distribution = KeptDepths(deck_id)
    /\ \A depth \in KeptDepths(deck_id) :
           distribution[depth] = NumberAt(deck_id, "keep", depth)

\* What lines 105-123 of get_deck_statistics compute before the response is
\* built is the distribution of the deck's decisions.
ComputedDistribution ==
    \A deck_id \in DOMAIN decks :
        IsDistributionOf(
            mulligan_distribution(get_decisions_for_deck(decisions, deck_id)),
            deck_id)

\* C13: for a stored deck with decisions, the deck statistics carry the
\* mulligan distribution that has an entry for exactly the depths with a
\* 'keep' record, each the number of 'keep' records at that depth, and
\* hands_kept_at_7 / 6 / 5 are the numbers of 'keep' records at depths
\* 0 / 1 / 2.
C13_MulliganDistribution ==
    \A deck_id \in DOMAIN decks :
        DecisionsOf(deck_id) # {} =>
            /\ DeckStatistics(deck_id).status = 200
            /\ LET body == DeckStatistics(deck_id).body.value
               IN  /\ IsDistributionOf(body.mulligan_distribution, deck_id)
                   /\ body.hands_kept_at_7 = NumberAt(deck_id, "keep", 0)
                   /\ body.hands_kept_at_6 = NumberAt(deck_id, "keep", 1)
                   /\ body.hands_kept_at_5 = NumberAt(deck_id, "keep", 2)

\* The sum of mulligan_count over the deck's 'keep' decisions at the depths
\* up to the given one.
RECURSIVE KeptMulligans(_, _)
KeptMulligans(deck_id, depth) ==
    IF depth < 0 THEN 0
    ELSE depth * NumberAt(deck_id, "keep", depth)
             + KeptMulligans(deck_id, depth - 1)

\* What lines 112-129 of get_deck_statistics compute before the response is
\* built is the mean over the 'keep' decisions to the nearest hundredth, and
\* 0 without a 'keep' decision.
ComputedAverage ==
    \A deck_id \in DOMAIN decks :
        LET hundredths ==
                average_mulligan_count(
                    get_decisions_for_deck(decisions, deck_id))
            keeps == NumberOf(deck_id, "keep")
            diff == hundredths * keeps
                        - 100 * KeptMulligans(deck_id, MaxRecordedMulligans)
        IN  IF keeps = 0 THEN hundredths = 0
            ELSE 2 * diff <= keeps /\ -2 * diff <= keeps

\* C14: for a stored deck with decisions, the deck statistics carry
\* average_mulligan_count, the sum of mulligan_count over the deck's 'keep'
\* records divided by their number, and 0.0 without a 'keep' record.
C14_AverageMulliganCount ==
    \A deck_id \in DOMAIN decks :
        DecisionsOf(deck_id) # {} =>
            /\ DeckStatistics(deck_id).status = 200
            /\ LET hundredths == DeckStatistics(deck_id).body.value
                                     .average_mulligan_count
                   keeps == NumberOf(deck_id, "keep")
               IN  IF keeps = 0 THEN hundredths = 0
                   ELSE hundredths * keeps =
                            100 * KeptMulligans(deck_id, MaxRecordedMulligans)

\* C17: for a stored deck with decisions, total_games of the deck statistics
\* is the number of the deck's 'keep' records: a 'mull' record is not a game.
C17_TotalGamesCountsKeeps ==
    \A deck_id \in DOMAIN decks :
        DecisionsOf(deck_id) # {} =>
            /\ DeckStatistics(deck_id).status = 200
            /\ DeckStatistics(deck_id).body.value.total_games =
                   NumberOf(deck_id, "keep")

\* The positions of the stored decisions with a signature, and how many of
\* them are the given decision.
DecisionsWith(hand_signature) ==
    {i \in 1..Len(decisions) : decisions[i].hand_signature = hand_signature}
NumberWith(hand_signature, decision) ==
    Cardinality({i \in DecisionsWith(hand_signature) :
                    decisions[i].decision = decision})

\* stats are the statistics of the stored decisions with the signature.
IsStatsOf(stats, hand_signature) ==
    LET keeps == NumberWith(hand_signature, "keep")
        mulls == NumberWith(hand_signature, "mull")
    IN  /\ stats.hand_signature = hand_signature
        /\ stats.times_kept = keeps
        /\ stats.times_mulled = mulls
        /\ keeps + mulls = Cardinality(DecisionsWith(hand_signature))
        /\ stats.keep_percentage.num * (keeps + mulls) =
               100 * keeps * stats.keep_percentage.den
        /\ stats.keep_percentage.den > 0
        /\ 0 <= stats.keep_percentage.num
        /\ stats.keep_percentage.num <= 100 * stats.keep_percentage.den

\* C15: get_hand_statistics(signature) returns None exactly when no stored
\* decision has that signature; otherwise times_kept and times_mulled are
\* the numbers of 'keep' and 'mull' records with it, they sum to the number
\* of matching records, and keep_percentage is
\* 100 * times_kept / (times_kept + times_mulled), between 0 and 100.
C15_HandStatistics ==
    \A hand_signature \in QuerySignatures :
        LET ret == get_hand_statistics(decisions, hand_signature).ret
        IN  /\ ret.is_none <=> DecisionsWith(hand_signature) = {}
            /\ ~ret.is_none => IsStatsOf(ret.value, hand_signature)

\* get_hand_statistics has answered for a signature kept once and
\* mulliganed twice, and also that nothing is stored for another signature.
C15_Witness ==
    /\ answer.op = "get_hand_statistics"
    /\ answer.ret = get_hand_statistics(decisions, answer.arg).ret
    /\ ~answer.ret.is_none
    /\ answer.ret.value.times_kept = 1
    /\ answer.ret.value.times_mulled = 2
    /\ answer.ret.value.keep_percentage = Fraction(100, 3)
    /\ get_hand_statistics(decisions, "Island").ret.is_none

\* The sum of total_decisions over a list of HandStats.
RECURSIVE SumOfTotals(_)
SumOfTotals(all_stats) ==
    IF all_stats = <<>> THEN 0
    ELSE total_decisions(Head(all_stats)) + SumOfTotals(Tail(all_stats))

\* The signatures that some stored decision has.
RecordedSignatures ==
    {hand_signature \in QuerySignatures : DecisionsWith(hand_signature) # {}}

\* all_stats has exactly one entry per recorded signature, each what
\* get_hand_statistics returns for it.
IsAllStats(all_stats) ==
    /\ {all_stats[i].hand_signature : i \in 1..Len(all_stats)} =
           RecordedSignatures
    /\ \A i, j \in 1..Len(all_stats) :
           all_stats[i].hand_signature = all_stats[j].hand_signature => i = j
    /\ \A i \in 1..Len(all_stats) :
           Some(all_stats[i]) =
               get_hand_statistics(decisions, all_stats[i].hand_signature).ret
    /\ SumOfTotals(all_stats) = Len(decisions)

\* C16: get_all_hand_statistics returns exactly one HandStats per distinct
\* signature among the stored decisions, none for a signature never
\* recorded and none twice, each equal to get_hand_statistics of its
\* signature, and the entries' total_decisions sum to the number of stored
\* decisions.
C16_AllHandStatistics ==
    \A signatures \in Orders(Signatures(decisions)) :
        IsAllStats(get_all_hand_statistics(decisions, signatures).ret)

\* get_all_hand_statistics has answered with two entries for three stored
\* decisions, two of them on the same cards in different orders.
C16_Witness ==
    /\ answer.op = "get_all_hand_statistics"
    /\ Len(decisions) = 3
    /\ Len(answer.ret) = 2
    /\ IsAllStats(answer.ret)
    /\ \E i, j \in 1..Len(decisions) :
           /\ decisions[i].hand_display # decisions[j].hand_display
           /\ decisions[i].hand_signature = decisions[j].hand_signature

\* A name n times, with ',' between.
RECURSIVE Commas(_, _)
Commas(name, n) ==
    IF n = 0 THEN ""
    ELSE IF n = 1 THEN name
    ELSE name \o "," \o Commas(name, n - 1)

\* The names of a hand in Python's order, joined with ',': written from how
\* often each name is in the hand, whatever the order of the cards.
SortedNames(cards) ==
    LET brainstorms == Count(cards, "Brainstorm")
        islands == Count(cards, "Island")
    IN  IF brainstorms > 0 /\ islands > 0
        THEN Commas("Brainstorm", brainstorms) \o "," \o Commas("Island", islands)
        ELSE Commas("Brainstorm", brainstorms) \o Commas("Island", islands)

\* C18: the signature of a hand depends only on how often each name is in
\* it: every stored decision carries the sorted names of its hand joined
\* with ',', every reordering of the hand gives the same signature, two
\* decisions on the same cards carry the same signature, and the empty hand
\* gives the empty string.
C18_SignatureOfMultiset ==
    \A i \in 1..Len(decisions) :
        LET cards == decisions[i].hand_display
        IN  /\ decisions[i].hand_signature = SortedNames(cards)
            /\ \A reordered \in shuffle(cards) :
                   get_signature(reordered) = decisions[i].hand_signature
            /\ \A j \in 1..Len(decisions) :
                   SameCards(cards, decisions[j].hand_display) =>
                       decisions[j].hand_signature = decisions[i].hand_signature
            /\ cards = <<>> => decisions[i].hand_signature = ""

\* Decisions are stored on the same cards in two orders, with the one
\* signature "Brainstorm,Island,Island", and on the empty hand.
C18_Witness ==
    \E i, j, k \in 1..Len(decisions) :
        /\ decisions[i].hand_display = <<"Island", "Brainstorm", "Island">>
        /\ decisions[j].hand_display = <<"Brainstorm", "Island", "Island">>
        /\ decisions[i].hand_signature = "Brainstorm,Island,Island"
        /\ decisions[j].hand_signature = "Brainstorm,Island,Island"
        /\ decisions[k].hand_display = <<>>
        /\ decisions[k].hand_signature = ""

\* A statistics query called twice in a row on the stored decisions: both
\* calls leave them as they are and return the same.
SameTwice(first, second) ==
    /\ first.records = decisions
    /\ second.records = decisions
    /\ second = first

SessionRequests ==
    {"get_session", "mulligan_hand", "keep_hand", "record_decision",
     "end_session"}

\* C21: an end-session that succeeds takes its id out of the session
\* registry and out of the session-to-deck map; an id that is out never
\* comes back; and a get, mulligan, keep, record-decision or end-session
\* for an id that is not registered, ended or never created, is a 404 that
\* changes no session and no stored decision.
C21_EndedSessionIsGone ==
    [][LET session_id == response'.session_id
       IN  /\ (response'.op = "end_session" /\ response'.status = 204) =>
                 /\ session_id \notin DOMAIN sessions'
                 /\ session_id \notin DOMAIN session_decks'
           /\ \A ended \in 1..issued :
                 ended \notin DOMAIN sessions =>
                     /\ ended \notin DOMAIN sessions'
                     /\ ended \notin DOMAIN session_decks'
           /\ (response'.op \in SessionRequests
                  /\ session_id \notin DOMAIN sessions) =>
                 /\ response'.status = 404
                 /\ sessions' = sessions
                 /\ session_decks' = session_decks
                 /\ decisions' = decisions
      ]_vars

\* The one session was started and ended, and a later mulligan request for
\* its id was answered not-found.
C21_Witness ==
    /\ issued = 1
    /\ DOMAIN sessions = {}
    /\ DOMAIN session_decks = {}
    /\ response = Request("mulligan_hand", 1, 404)

\* ------------------------------------------------------------------------
\* Properties of the recorded decisions
\* ------------------------------------------------------------------------

\* C22: a decision submitted through the record-decision request is stored
\* with exactly the reason the request carries, and with reason absent when
\* the request carries none.
C22_ReasonIsStored ==
    \A session_id \in DOMAIN sessions, decision \in {"keep", "mull"},
       reason \in Reasons, now \in Times :
        LET r == record_decision(sessions[session_id],
                                 session_decks[session_id], decision, reason,
                                 now)
        IN  r.status = 201 => r.saved[1].reason = reason

\* The reading of the clock an ISO timestamp stands for.
TimeOf(iso) == CHOOSE timestamp \in 0..9 : isoformat(timestamp) = iso

\* A stored decision is one the history request asks for: every decision
\* without a filter, the decisions of the filter's deck with one; an empty
\* filter either asks for the decisions of the deck "" or counts as no
\* filter.
Selected(deck_id, d, empty_is_no_filter) ==
    \/ deck_id.is_none
    \/ empty_is_no_filter /\ deck_id.value = ""
    \/ d.deck_id = deck_id.value

\* For every filter, the history read in one page holds the selected
\* decisions, each as often as it is stored, oldest first; every page is
\* the part of it from position offset on, at most limit long; and total is
\* always the number of the selected decisions.
HistoryIsPaged(empty_is_no_filter) ==
    \A deck_id \in HistoryFilters :
        LET selected ==
                {i \in 1..Len(decisions) :
                    Selected(deck_id, decisions[i], empty_is_no_filter)}
            whole == get_decision_history(decisions, deck_id,
                                          Len(decisions) + 1, 0).decisions
        IN  /\ Len(whole) = Cardinality(selected)
            /\ \A i, j \in 1..Len(whole) :
                   i < j => TimeOf(whole[i].timestamp)
                                <= TimeOf(whole[j].timestamp)
            /\ \A d \in HistoryRecords :
                   Cardinality({i \in 1..Len(whole) :
                                   whole[i] = DecisionResponse(d)})
                       = Cardinality({i \in selected : decisions[i] = d})
            /\ \A limit \in 1..MaxLimit, offset \in 0..MaxOffset :
                   LET page == get_decision_history(decisions, deck_id,
                                                    limit, offset)
                   IN  /\ page.total = Cardinality(selected)
                       /\ page.decisions =
                              SubSeq(whole, offset + 1,
                                     Min(offset + limit, Len(whole)))

C24_CardsAreConserved ==
    [][SameCards(sim'.deck \o sim'.current_hand.cards,
                 sim.deck \o sim.current_hand.cards)]_vars

\* C25: a game can always be finished: whenever the engine has an active
\* hand, at whatever mulligan depth, some list of cards to bottom makes
\* keep() succeed. Only lists of mulligan_count cards pass the count test
\* of keep(), so those are the lists searched.
C25_SomeKeepSucceeds ==
    HasHand =>
        \E cards \in [1..sim.mulligan_count -> CardNames] :
            keep(sim, ListArg(cards)).result = "ok"

\* C26: recording a decision succeeds for a session whose engine is at any
\* mulligan depth the engine can reach: the request is answered 201 and
\* stores one record with the engine's mulligan count, the signature and
\* the display of the current hand, the session's deck id and on_play, and
\* lands_in_hand 0.
C26_DecisionIsRecordedAtEveryDepth ==
    HasHand =>
        \A deck_id \in DeckIds, decision \in {"keep", "mull"},
           reason \in Reasons, now \in Times :
            LET r == record_decision(sim, deck_id, decision, reason, now)
            IN  /\ r.status = 201
                /\ Len(r.saved) = 1
                /\ r.saved[1].mulligan_count = sim.mulligan_count
                /\ r.saved[1].hand_signature = get_signature(HandCards)
                /\ r.saved[1].hand_display = HandCards
                /\ r.saved[1].deck_id = deck_id
                /\ r.saved[1].on_play = sim.on_play
                /\ r.saved[1].lands_in_hand = 0

\* ------------------------------------------------------------------------
\* Two requests at once on one session (sessions.py, mulligan.py)
\*
\* mulligan_hand and keep_hand are plain functions; the server runs each
\* request in a worker thread, and nothing in the handlers or in the engine
\* takes a lock. sim is the engine both workers found in the registry. A
\* step is one call on the deck or the hand, or one statement of the
\* engine between two such calls.
\* ------------------------------------------------------------------------

\* The requests the server receives.
MaxRequests == 3

\* The longest cards_to_bottom list a keep request carries.
MaxRaceBottom == 2

\* The deck of the session, as stored.
RaceDeck == <<"Brainstorm", "Island", "Island">>

\* The engine of a session just started: start_session shuffles the deck,
\* builds the engine and draws the opening hand.
RaceSessions ==
    {start_game(NewSimulator(shuffled, TRUE)).sim : shuffled \in shuffle(RaceDeck)}

\* The worker has answered its request with status.
Answered(worker, status) ==
    [IdleWorker EXCEPT
        !.status = status,
        !.served = worker.served + 1,
        !.mulligans = worker.mulligans +
                      (IF worker.op = "mulligan" /\ status = 200 THEN 1 ELSE 0)]

\* The requests received so far: those answered and those being handled.
Received ==
    LET of(w) == workers[w].served + (IF workers[w].pc = "idle" THEN 0 ELSE 1)
    IN  of(1) + of(2)

\* POST /sessions/{id}/mulligan arrives; the session is found.
ReceiveMulligan(w) ==
    /\ workers[w].pc = "idle"
    /\ Received < MaxRequests
    /\ workers' = [workers EXCEPT ![w].op = "mulligan", ![w].pc = "get_cards",
                                  ![w].status = 0]
    /\ UNCHANGED <<engineVars, apiVars, answer>>

\* mulligan(): the test for a hand, and cards_to_return = get_cards(), a copy.
MulliganGetCards(w) ==
    /\ workers[w].pc = "get_cards"
    /\ IF sim.current_hand.is_none
       THEN workers' = [workers EXCEPT ![w] = Answered(workers[w], 500)]
       ELSE workers' = [workers EXCEPT ![w].cards = sim.current_hand.cards,
                                       ![w].pc = "return_cards"]
    /\ UNCHANGED <<engineVars, apiVars, answer>>

\* mulligan(): self._deck.return_cards(cards_to_return)
MulliganReturnCards(w) ==
    /\ workers[w].pc = "return_cards"
    /\ sim' = [sim EXCEPT !.deck = return_cards(sim.deck, workers[w].cards)]
    /\ workers' = [workers EXCEPT ![w].pc = "shuffle"]
    /\ UNCHANGED <<last, kept, apiVars, answer>>

\* mulligan(): self._deck.shuffle()
MulliganShuffle(w) ==
    /\ workers[w].pc = "shuffle"
    /\ \E shuffled \in shuffle(sim.deck) : sim' = [sim EXCEPT !.deck = shuffled]
    /\ workers' = [workers EXCEPT ![w].pc = "count"]
    /\ UNCHANGED <<last, kept, apiVars, answer>>

\* mulligan(): self._mulligan_count += 1
MulliganCount(w) ==
    /\ workers[w].pc = "count"
    /\ sim' = [sim EXCEPT !.mulligan_count = sim.mulligan_count + 1]
    /\ workers' = [workers EXCEPT ![w].pc = "draw"]
    /\ UNCHANGED <<last, kept, apiVars, answer>>

\* mulligan(): cards = self._deck.draw(7)
MulliganDraw(w) ==
    /\ workers[w].pc = "draw"
    /\ LET d == draw(sim.deck, HandSize)
       IN  /\ sim' = [sim EXCEPT !.deck = d.rest]
           /\ workers' = [workers EXCEPT ![w].cards = d.drawn, ![w].pc = "set_hand"]
    /\ UNCHANGED <<last, kept, apiVars, answer>>

\* mulligan(): self._current_hand = Hand(cards), and the response.
MulliganSetHand(w) ==
    /\ workers[w].pc = "set_hand"
    /\ sim' = [sim EXCEPT !.current_hand = Hand(workers[w].cards)]
    /\ workers' = [workers EXCEPT ![w] = Answered(workers[w], 200)]
    /\ UNCHANGED <<last, kept, apiVars, answer>>

\* POST /sessions/{id}/keep arrives with a list of card names; the session
\* is found.
ReceiveKeep(w) ==
    /\ workers[w].pc = "idle"
    /\ Received < MaxRequests
    /\ \E names \in CardLists(MaxRaceBottom) :
          workers' = [workers EXCEPT ![w].op = "keep", ![w].pc = "resolve",
                                     ![w].cards = names, ![w].status = 0]
    /\ UNCHANGED <<engineVars, apiVars, answer>>

\* keep_hand: the names are looked up in a copy of the hand, each found card
\* leaving the copy; a name that is not found is answered 400.
KeepResolve(w) ==
    /\ workers[w].pc = "resolve"
    /\ IF \/ sim.current_hand.is_none
          \/ ~RemoveEach(sim.current_hand.cards, workers[w].cards).ok
       THEN workers' = [workers EXCEPT ![w] = Answered(workers[w], 400)]
       ELSE workers' = [workers EXCEPT ![w].pc = "check"]
    /\ UNCHANGED <<engineVars, apiVars, answer>>

\* keep(): the test for a hand and the test of the count.
KeepCheck(w) ==
    /\ workers[w].pc = "check"
    /\ IF \/ sim.current_hand.is_none
          \/ BottomCountMismatch(sim, workers[w].cards)
       THEN workers' = [workers EXCEPT ![w] = Answered(workers[w], 400)]
       ELSE workers' = [workers EXCEPT ![w].todo = workers[w].cards,
                                       ![w].pc = "remove"]
    /\ UNCHANGED <<engineVars, apiVars, answer>>

\* keep(): one round of the loop, self._current_hand.remove_card(card); the
\* ValueError of a card that is not in the hand is answered 400.
KeepRemove(w) ==
    /\ workers[w].pc = "remove"
    /\ workers[w].todo # <<>>
    /\ LET r == remove_card(sim.current_hand.cards, Head(workers[w].todo))
       IN  IF r.ok
           THEN /\ sim' = [sim EXCEPT !.current_hand.cards = r.cards]
                /\ workers' = [workers EXCEPT ![w].todo = Tail(workers[w].todo)]
           ELSE /\ sim' = sim
                /\ workers' = [workers EXCEPT ![w] = Answered(workers[w], 400)]
    /\ UNCHANGED <<last, kept, apiVars, answer>>

\* keep(): self._deck.put_on_bottom(cards_to_bottom), and the response.
KeepPutOnBottom(w) ==
    /\ workers[w].pc = "remove"
    /\ workers[w].todo = <<>>
    /\ sim' = [sim EXCEPT !.deck = put_on_bottom(sim.deck, workers[w].cards)]
    /\ workers' = [workers EXCEPT ![w] = Answered(workers[w], 200)]
    /\ UNCHANGED <<last, kept, apiVars, answer>>

InitRace ==
    /\ sim \in RaceSessions
    /\ last = Call("start_game", "ok")
    /\ kept = FALSE
    /\ ApiIdle

NextRace ==
    \E w \in Workers :
        \/ ReceiveMulligan(w)
        \/ MulliganGetCards(w)
        \/ MulliganReturnCards(w)
        \/ MulliganShuffle(w)
        \/ MulliganCount(w)
        \/ MulliganDraw(w)
        \/ MulliganSetHand(w)
        \/ ReceiveKeep(w)
        \/ KeepResolve(w)
        \/ KeepCheck(w)
        \/ KeepRemove(w)
        \/ KeepPutOnBottom(w)

SpecRace == InitRace /\ [][NextRace]_vars

\* ------------------------------------------------------------------------
\* Properties of two requests at once on one session
\* ------------------------------------------------------------------------

\* No worker is in the middle of a request.
AllAnswered == \A w \in Workers : workers[w].pc = "idle"

\* The mulligans the workers have performed.
MulligansPerformed == workers[1].mulligans + workers[2].mulligans

\* C27: requests that mutate one session at the same time, interleaved step
\* by step, leave the session as some sequential order of them would: once
\* they are answered no card is lost or duplicated between deck and hand,
\* the hand has at most 7 cards, and the mulligan count is the number of
\* mulligans performed.
C27_ConcurrentRequestsSerialize ==
    AllAnswered =>
        /\ SameCards(sim.deck \o sim.current_hand.cards, RaceDeck)
        /\ Len(sim.current_hand.cards) <= HandSize
        /\ sim.mulligan_count = MulligansPerformed

\* ------------------------------------------------------------------------
\* Requests at once on the session registry (sessions.py, dependencies.py)
\*
\* _sessions and _session_decks are two module-level dicts; start_session
\* and end_session update one and then the other, get_session reads one and
\* then the other, and nothing takes a lock. A step is one statement on a
\* dict.
\* ------------------------------------------------------------------------

\* The session ids a client can name: those a start_session response has
\* handed out (an id is a fresh uuid4, unknown until then) and one that
\* was never issued.
NamedSessionIds ==
    {session_id \in 1..issued :
        \A w \in Workers : ~(/\ workers[w].op = "start_session"
                              /\ workers[w].session_id = session_id)}
    \cup {MaxSessions + 1}

\* POST /sessions, up to sessions[session_id] = simulator.
StartSessionPutSession(w) ==
    /\ workers[w].pc = "idle"
    /\ Received < MaxRequests
    /\ issued < MaxSessions
    /\ \E shuffled \in shuffle(decks["mono_u"]), on_play \in BOOLEAN :
          LET simulator == start_game(NewSimulator(shuffled, on_play)).sim
              session_id == issued + 1
          IN  /\ sessions' = Put(sessions, session_id, simulator)
              /\ issued' = session_id
              /\ workers' = [workers EXCEPT ![w].op = "start_session",
                                            ![w].pc = "put_deck",
                                            ![w].session_id = session_id,
                                            ![w].status = 0]
    /\ UNCHANGED <<engineVars, decks, decisions, session_decks, response, answer>>

\* POST /sessions: session_decks[session_id] = request.deck_id, and the
\* response.
StartSessionPutDeck(w) ==
    /\ workers[w].pc = "put_deck"
    /\ session_decks' = Put(session_decks, workers[w].session_id, "mono_u")
    /\ workers' = [workers EXCEPT ![w] = Answered(workers[w], 201)]
    /\ UNCHANGED <<engineVars, decks, decisions, sessions, issued, response, answer>>

\* GET /sessions/{session_id} arrives.
ReceiveGetSession(w) ==
    /\ workers[w].pc = "idle"
    /\ Received < MaxRequests
    /\ \E session_id \in NamedSessionIds :
          workers' = [workers EXCEPT ![w].op = "get_session", ![w].pc = "get",
                                     ![w].session_id = session_id,
                                     ![w].status = 0]
    /\ UNCHANGED <<engineVars, apiVars, answer>>

\* get_session: simulator = sessions.get(session_id), 404 when there is none.
GetSessionGet(w) ==
    /\ workers[w].pc = "get"
    /\ IF ~Found(workers[w].session_id)
       THEN workers' = [workers EXCEPT ![w] = Answered(workers[w], 404)]
       ELSE workers' = [workers EXCEPT ![w].pc = "deck_id"]
    /\ UNCHANGED <<engineVars, apiVars, answer>>

\* get_session: deck_id = session_decks[session_id], a KeyError (500) when
\* the id is not in the map, and the response.
GetSessionDeckId(w) ==
    /\ workers[w].pc = "deck_id"
    /\ IF workers[w].session_id \notin DOMAIN session_decks
       THEN workers' = [workers EXCEPT ![w] = Answered(workers[w], 500)]
       ELSE workers' = [workers EXCEPT ![w] = Answered(workers[w], 200)]
    /\ UNCHANGED <<engineVars, apiVars, answer>>

\* DELETE /sessions/{session_id} arrives.
ReceiveEndSession(w) ==
    /\ workers[w].pc = "idle"
    /\ Received < MaxRequests
    /\ \E session_id \in NamedSessionIds :
          workers' = [workers EXCEPT ![w].op = "end_session", ![w].pc = "in",
                                     ![w].session_id = session_id,
                                     ![w].status = 0]
    /\ UNCHANGED <<engineVars, apiVars, answer>>

\* end_session: the test session_id not in sessions, 404 when it is not.
EndSessionIn(w) ==
    /\ workers[w].pc = "in"
    /\ IF ~Found(workers[w].session_id)
       THEN workers' = [workers EXCEPT ![w] = Answered(workers[w], 404)]
       ELSE workers' = [workers EXCEPT ![w].pc = "del_session"]
    /\ UNCHANGED <<engineVars, apiVars, answer>>

\* end_session: del sessions[session_id], a KeyError (500) when the id is
\* no longer there.
EndSessionDelSession(w) ==
    /\ workers[w].pc = "del_session"
    /\ IF ~Found(workers[w].session_id)
       THEN /\ workers' = [workers EXCEPT ![w] = Answered(workers[w], 500)]
            /\ UNCHANGED sessions
       ELSE /\ sessions' = Del(sessions, workers[w].session_id)
            /\ workers' = [workers EXCEPT ![w].pc = "del_deck"]
    /\ UNCHANGED <<engineVars, decks, decisions, session_decks, issued, response, answer>>

\* end_session: del session_decks[session_id], a KeyError (500) when the id
\* is not in the map, and the response.
EndSessionDelDeck(w) ==
    /\ workers[w].pc = "del_deck"
    /\ IF workers[w].session_id \notin DOMAIN session_decks
       THEN /\ workers' = [workers EXCEPT ![w] = Answered(workers[w], 500)]
            /\ UNCHANGED session_decks
       ELSE /\ session_decks' = Del(session_decks, workers[w].session_id)
            /\ workers' = [workers EXCEPT ![w] = Answered(workers[w], 204)]
    /\ UNCHANGED <<engineVars, decks, decisions, sessions, issued, response, answer>>

NextRegistry ==
    \E w \in Workers :
        \/ StartSessionPutSession(w)
        \/ StartSessionPutDeck(w)
        \/ ReceiveGetSession(w)
        \/ GetSessionGet(w)
        \/ GetSessionDeckId(w)
        \/ ReceiveEndSession(w)
        \/ EndSessionIn(w)
        \/ EndSessionDelSession(w)
        \/ EndSessionDelDeck(w)

SpecRegistry == InitApi /\ [][NextRegistry]_vars

\* ------------------------------------------------------------------------
\* Properties of requests at once on the session registry
\* ------------------------------------------------------------------------

\* C28: the registry and the session-to-deck map hold the same ids whenever
\* no request is between its two updates, and a request that has found its
\* session in the registry is never answered with the server error of an id
\* missing from a dict, also while end_session requests for that id are
\* being handled.
C28_RegistryAndMapAgree ==
    /\ AllAnswered => DOMAIN sessions = DOMAIN session_decks
    /\ \A w \in Workers :
          /\ workers[w].pc = "deck_id" =>
                 workers[w].session_id \in DOMAIN session_decks
          /\ workers[w].status # 500

\* ------------------------------------------------------------------------
\* Properties of a rejected keep request
\* ------------------------------------------------------------------------

MaxSplitRecords == 2

\* The cards a hand of such cards holds at most.
MaxSplitHand == 2

\* Two cards, and one card whose name is theirs joined by ','.
SplitNames == {"Fire", "Ice", "Fire,Ice"}

SplitHands == UNION {[1..k -> SplitNames] : k \in 0..MaxSplitHand}

SplitRecords ==
    {StoredDecision(hand_display, 0, decision, "mono_u") :
        hand_display \in SplitHands, decision \in {"keep", "mull"}}

\* datastore.save_hand_decision(decision) with a decision on such a hand
SaveSplitDecision ==
    /\ Len(decisions) < MaxSplitRecords
    /\ \E decision \in SplitRecords :
           decisions' = save_hand_decision(decisions, decision)
    /\ UNCHANGED <<engineVars, workers, decks, sessions, session_decks, issued,
                   response, answer>>

\* datastore.get_hand_statistics(hand.get_signature()) for such a hand
GetSplitHandStatistics ==
    /\ \E hand \in SplitHands :
           LET r == get_hand_statistics(decisions, get_signature(hand))
           IN  /\ decisions' = r.records
               /\ answer' = Query("get_hand_statistics", hand, r.ret)
    /\ UNCHANGED <<engineVars, workers, decks, sessions, session_decks, issued,
                   response>>

NextSplit ==
    \/ SaveSplitDecision
    \/ GetSplitHandStatistics

SpecSplit == InitApi /\ [][NextSplit]_vars

\* ------------------------------------------------------------------------
\* Properties of the signature as a key
\* ------------------------------------------------------------------------

\* The two hands hold the same names, each as often.
SameNames(a, b) ==
    /\ Len(a) = Len(b)
    /\ \A i \in 1..Len(a) : Count(a, a[i]) = Count(b, a[i])

\* The stored decisions on hands of the same names as hand.
DecisionsOn(hand) ==
    SelectSeq(decisions, LAMBDA d : SameNames(d.hand_display, hand))

\* C30: the signature identifies the composition of a hand, also when names
\* contain ',': two stored decisions carry the same signature only if their
\* hands hold the same names as often, and the statistics asked for a
\* hand's signature count the decisions on that composition and no others.
C30_SignatureIdentifiesHand ==
    /\ \A i, j \in 1..Len(decisions) :
          decisions[i].hand_signature = decisions[j].hand_signature =>
              SameNames(decisions[i].hand_display, decisions[j].hand_display)
    /\ (answer.op = "get_hand_statistics" /\ ~answer.ret.is_none) =>
          answer.ret.value.times_kept + answer.ret.value.times_mulled
             <= Len(DecisionsOn(answer.arg))

====
